---------------------------- MODULE Spec2Model ----------------------------
(***************************************************************************)
(* A model of ffc's QuadratureTransformer                                  *)
(* (src/ffc/quadrature/quadraturetransformer.py): the visitor methods that *)
(* turn the code maps of a node's children into the node's code map.       *)
(*                                                                         *)
(* A code token is a Python string, modelled as a sequence of symbols, so  *)
(* that string concatenation is \o and the empty string is << >>.  Python's*)
(* None (the symbolic zero) is a sentinel different from every token.  A   *)
(* code map is a Python dict, modelled as a function from component keys   *)
(* (tuples of integers) to tokens or None.                                 *)
(***************************************************************************)
EXTENDS Integers, Sequences, FiniteSets, TLC

VARIABLES
    op,         \* the visitor method that has just run ("idle" between calls)
    operands,   \* the code maps it was called with (*operands)
    extra,      \* its other inputs (exponent, mapping kind, lookups, ...), or the
                \* operands of the child whose code map is among operands
    order,      \* the iteration order of the dict the call looped over
    result,     \* what the call did: [status, err, ret]
    trans_set,  \* self.trans_set, the used-transforms set
    lookups,    \* the element lookups the call made, in order: <<component, deriv>>
    calls,      \* how many calls have changed or may have changed trans_set
    restriction,\* self.restriction
    geo_dim     \* self.geo_dim

vars == <<op, operands, extra, order, result, trans_set, lookups, calls,
          restriction, geo_dim>>

---------------------------------------------------------------------------
(* Bounds of the model. *)

\* The longest operand list a visitor method is called with.
MaxOperands == 3

\* Product is explored for operand lists whose Cartesian product of tensor
\* keys has at most this many entries (every order of them is tried).
MaxPermutations == 4

\* The longest list of multi-indices create_argument and create_function are
\* called with.
MaxMulti == 2

\* The number of calls of one transformer instance that write trans_set.
MaxCalls == 2

\* The longest operand list of a node whose code map is passed on to its
\* parent node.
MaxChildren == 2

\* The longest derivative list __apply_transform is called with on its own.
MaxDerivatives == 2

---------------------------------------------------------------------------
(* Python values. *)

None == <<"None">>
EmptyToken == << >>
One == <<"1">>
A == <<"A">>
B == <<"B">>

\* dict(): the empty code map.
EmptyMap == [k \in {} |-> None]

\* The key of a rank-0 entry, ().
Scalar == << >>

\* {(): v}
ScalarMap(v) == [k \in {Scalar} |-> v]

\* All orders in which a dict with key set S can be iterated.
DictOrders(S) ==
    {s \in [1..Cardinality(S) -> S] : \A i, j \in 1..Cardinality(S) : i # j => s[i] # s[j]}

\* [x for x in s if x in S], for a sequence s.
Restrict(s, S) == SelectSeq(s, LAMBDA x : x \in S)

\* The set of the elements of a sequence.
Range(s) == {s[i] : i \in 1..Len(s)}

\* The result of a call: a returned value, or an error raised.
Return(v) == [status |-> "ok", err |-> "", ret |-> v]
Raise(e) == [status |-> "error", err |-> e, ret |-> None]

---------------------------------------------------------------------------
(* The format table (self.format): the backend's emission functions. *)

RECURSIVE Join(_, _)
Join(sep, l) ==
    IF l = << >> THEN << >>
    ELSE IF Len(l) = 1 THEN l[1]
    ELSE l[1] \o sep \o Join(sep, Tail(l))

format_mult(l) == Join(<<"*">>, l)
format_add(l) == Join(<<"+">>, l)
format_group(v) == <<"(">> \o v \o <<")">>
format_float(n) == <<ToString(n) \o ".0">>
format_div == <<"/">>
format_power(base, n) == <<"pow(">> \o base \o <<",", ToString(n), ")">>
format_std_power(base, e) == <<"std::pow(">> \o base \o <<",">> \o e \o <<")">>
format_abs(v) == <<"std::abs(">> \o v \o <<")">>
format_transform(type, j, k, r) == <<type \o "_" \o ToString(j) \o ToString(k) \o r>>
format_detJ(r) == <<"detJ" \o r>>
format_inv(v) == <<"1.0/">> \o v
format_normal_component(r, c) == <<"n" \o r \o ToString(c)>>

---------------------------------------------------------------------------
(* sum *)

\* code[key] after the first loop of sum: the values of the operands that
\* hold key, in operand order.
Collected(ops, key) ==
    LET idx == SelectSeq([i \in 1..Len(ops) |-> i], LAMBDA i : key \in DOMAIN ops[i])
    IN  [j \in 1..Len(idx) |-> ops[idx[j]][key]]

\* The union of the operands' key sets.
AllKeys(ops) == UNION {DOMAIN ops[i] : i \in 1..Len(ops)}

\* Duplications with the count of a repeated token never raised.
Duplications_NeverRaised(value, val) == 1

\* duplications[val]: how often val occurs in value.
Duplications(value, val) == Cardinality({i \in 1..Len(value) : value[i] = val})

\* Expressions with only the terms of the repeated tokens kept.
Expressions_OnlyRepeated(value, ord) ==
    LET keys == SelectSeq(Restrict(ord, Range(value)),
                          LAMBDA t : Duplications(value, t) > 1)
    IN  [j \in 1..Len(keys) |->
            format_mult(<<format_float(Duplications(value, keys[j])), keys[j]>>)]

\* Expressions with every term multiplied by its count, also a count of 1.
Expressions_AlwaysCounted(value, ord) ==
    LET keys == Restrict(ord, Range(value))
    IN  [j \in 1..Len(keys) |->
            format_mult(<<format_float(Duplications(value, keys[j])), keys[j]>>)]

\* expressions: one term per key of duplications, in the dict's order ord.
Expressions(value, ord) ==
    LET keys == Restrict(ord, Range(value))
    IN  [j \in 1..Len(keys) |->
            IF Duplications(value, keys[j]) > 1
            THEN format_mult(<<format_float(Duplications(value, keys[j])), keys[j]>>)
            ELSE keys[j]]

\* SumKey with a literal "0" emitted for a sum of zeros only.
SumKey_EmitsZero(val, ord) ==
    LET value == SelectSeq(val, LAMBDA v : v # None)
        expressions == Expressions(value, ord)
    IN  IF Len(value) > 1
        THEN IF expressions = << >> THEN <<"assert">>
             ELSE IF Len(expressions) > 1 THEN format_group(format_add(expressions))
             ELSE expressions[1]
        ELSE IF value = << >> THEN <<"0">>
        ELSE value[1]

\* The body of the second loop of sum for one key: the new code[key], or
\* "assert" when ffc_assert(expressions, ...) fails.
SumKey(val, ord) ==
    LET value == SelectSeq(val, LAMBDA v : v # None)
        expressions == Expressions(value, ord)
    IN  IF Len(value) > 1
        THEN IF expressions = << >> THEN <<"assert">>
             ELSE IF Len(expressions) > 1 THEN format_group(format_add(expressions))
             ELSE expressions[1]
        ELSE IF value = << >> THEN None
        ELSE value[1]

sum(ops, ord) ==
    LET keys == AllKeys(ops)
        code == [key \in keys |-> SumKey(Collected(ops, key), ord)]
    IN  IF \E key \in keys : code[key] = <<"assert">>
        THEN Raise("Where did the expressions go?")
        ELSE Return(code)

---------------------------------------------------------------------------
(* product *)

\* len(op) > 1 or (op and op.keys()[0] != ()): the operand needs permutation.
NeedsPermutation(m) ==
    \/ Cardinality(DOMAIN m) > 1
    \/ (DOMAIN m # {} /\ DOMAIN m # {Scalar})

\* permute: the operands that need permutation, in operand order.
Permute(ops) == SelectSeq(ops, NeedsPermutation)

\* not_permute: the ()-tokens of the other non-empty operands, in operand
\* order.
NotPermute(ops) ==
    LET rest == SelectSeq(ops, LAMBDA m : ~NeedsPermutation(m) /\ DOMAIN m # {})
    IN  [j \in 1..Len(rest) |-> rest[j][Scalar]]

\* create_permutations(permute): one entry per element of the Cartesian
\* product of the maps' key sets, keyed by the concatenated keys and holding
\* the list of the chosen entries' tokens; the empty dict for no maps.
RECURSIVE create_permutations(_)
create_permutations(expr) ==
    IF expr = << >> THEN EmptyMap
    ELSE IF Len(expr) = 1 THEN [k \in DOMAIN expr[1] |-> <<expr[1][k]>>]
    ELSE LET first == expr[1]
             rest == create_permutations(Tail(expr))
             pairs == (DOMAIN first) \X (DOMAIN rest)
         IN  [key \in {p[1] \o p[2] : p \in pairs} |->
                LET p == CHOOSE q \in pairs : q[1] \o q[2] = key
                IN  <<first[p[1]]>> \o rest[p[2]]]

\* l = list(key); l.sort(); tuple(l)
SortedKey(key) == SortSeq(key, LAMBDA a, b : a < b)

\* Fold with the tokens "1" kept among the multiplicands.
RECURSIVE Fold_KeepsIdentity(_, _, _)
Fold_KeepsIdentity(vs, i, value) ==
    IF i > Len(vs) THEN [kind |-> "value", value |-> value]
    ELSE IF vs[i] = None THEN [kind |-> "zero", value |-> value]
    ELSE IF vs[i] = EmptyToken THEN [kind |-> "error", value |-> value]
    ELSE Fold_KeepsIdentity(vs, i + 1, Append(value, vs[i]))

\* The loop over the multiplicands vs of one product, from position i on,
\* with the tokens kept so far in value: "zero" at the first None, "error" at
\* the first empty token, otherwise the tokens that are not "1".
RECURSIVE Fold(_, _, _)
Fold(vs, i, value) ==
    IF i > Len(vs) THEN [kind |-> "value", value |-> value]
    ELSE IF vs[i] = None THEN [kind |-> "zero", value |-> value]
    ELSE IF vs[i] = EmptyToken THEN [kind |-> "error", value |-> value]
    ELSE IF vs[i] = One THEN Fold(vs, i + 1, value)
    ELSE Fold(vs, i + 1, Append(value, vs[i]))

\* if not value: value = ["1"]
OrOne(value) == IF value = << >> THEN <<One>> ELSE value

\* One pass of the loop `for key, val in permutations.items()`, entered with
\* the code map built so far (st.code); st.err is the error raised, if any.
ProductEntry(st, key, val, not_permute) ==
    LET l == SortedKey(key)
        f == Fold(val \o not_permute, 1, << >>)
        put(v) == [k \in (DOMAIN st.code) \cup {l} |-> IF k = l THEN v ELSE st.code[k]]
    IN  IF st.err # "" THEN st
        ELSE IF f.kind = "zero"
        THEN IF l \in DOMAIN st.code
             THEN [st EXCEPT !.err = "This key should not be in the code."]
             ELSE [st EXCEPT !.code = put(None)]
        ELSE IF f.kind = "error" THEN [st EXCEPT !.err = "should not happen"]
        ELSE [st EXCEPT !.code = put(format_mult(OrOne(f.value)))]

\* The whole loop, over the entries in the order ord of their keys.
RECURSIVE ProductLoop(_, _, _, _, _)
ProductLoop(st, permutations, ord, i, not_permute) ==
    IF i > Len(ord) THEN st
    ELSE ProductLoop(ProductEntry(st, ord[i], permutations[ord[i]], not_permute),
                     permutations, ord, i + 1, not_permute)

\* ord is the order in which permutations.items() yields the entries.
product(ops, ord) ==
    LET not_permute == NotPermute(ops)
        permutations == create_permutations(Permute(ops))
        looped == ProductLoop([code |-> EmptyMap, err |-> ""], permutations, ord, 1,
                              not_permute)
        f == Fold(not_permute, 1, << >>)
    IN  IF DOMAIN permutations # {}
        THEN IF looped.err # "" THEN Raise(looped.err) ELSE Return(looped.code)
        ELSE IF f.kind = "zero" THEN Return(ScalarMap(None))
        ELSE IF f.kind = "error" THEN Raise("should not happen")
        ELSE Return(ScalarMap(format_mult(OrOne(f.value))))

---------------------------------------------------------------------------
(* division *)

\* division without the check of the denominator against None.
division_NoZeroCheck(ops) ==
    IF Len(ops) # 2
    THEN Raise("Expected exactly two operands (numerator and denominator)")
    ELSE LET numerator_code == ops[1]
             denominator_code == ops[2]
             denominator == denominator_code[Scalar]
         IN  IF ~(Scalar \in DOMAIN denominator_code /\ Cardinality(DOMAIN denominator_code) = 1)
             THEN Raise("Only support function type denominator")
             ELSE Return([key \in DOMAIN numerator_code |->
                    IF numerator_code[key] = None THEN None
                    ELSE IF denominator = One THEN numerator_code[key]
                    ELSE numerator_code[key] \o format_div \o format_group(denominator)])

\* division without the grouping of the denominator.
division_NoGrouping(ops) ==
    IF Len(ops) # 2
    THEN Raise("Expected exactly two operands (numerator and denominator)")
    ELSE LET numerator_code == ops[1]
             denominator_code == ops[2]
             denominator == denominator_code[Scalar]
         IN  IF ~(Scalar \in DOMAIN denominator_code /\ Cardinality(DOMAIN denominator_code) = 1)
             THEN Raise("Only support function type denominator")
             ELSE IF denominator = None THEN Raise("Division by zero!")
             ELSE Return([key \in DOMAIN numerator_code |->
                    IF numerator_code[key] = None THEN None
                    ELSE IF denominator = One THEN numerator_code[key]
                    ELSE numerator_code[key] \o format_div \o denominator])

\* division with the denominator "1" emitted like any other.
division_ByIdentity(ops) ==
    IF Len(ops) # 2
    THEN Raise("Expected exactly two operands (numerator and denominator)")
    ELSE LET numerator_code == ops[1]
             denominator_code == ops[2]
             denominator == denominator_code[Scalar]
         IN  IF ~(Scalar \in DOMAIN denominator_code /\ Cardinality(DOMAIN denominator_code) = 1)
             THEN Raise("Only support function type denominator")
             ELSE IF denominator = None THEN Raise("Division by zero!")
             ELSE Return([key \in DOMAIN numerator_code |->
                    IF numerator_code[key] = None THEN None
                    ELSE numerator_code[key] \o format_div \o format_group(denominator)])

division(ops) ==
    IF Len(ops) # 2
    THEN Raise("Expected exactly two operands (numerator and denominator)")
    ELSE LET numerator_code == ops[1]
             denominator_code == ops[2]
             denominator == denominator_code[Scalar]
         IN  IF ~(Scalar \in DOMAIN denominator_code /\ Cardinality(DOMAIN denominator_code) = 1)
             THEN Raise("Only support function type denominator")
             ELSE IF denominator = None THEN Raise("Division by zero!")
             ELSE Return([key \in DOMAIN numerator_code |->
                    IF numerator_code[key] = None THEN None
                    ELSE IF denominator = One THEN numerator_code[key]
                    ELSE numerator_code[key] \o format_div \o format_group(denominator)])

---------------------------------------------------------------------------
(* power *)

\* power with a float literal sent down the integer branch.
power_FloatAsInt(base_code, expo) ==
    IF ~(Scalar \in DOMAIN base_code /\ Cardinality(DOMAIN base_code) = 1)
    THEN Raise("Only support function type base")
    ELSE LET val == base_code[Scalar]
         IN  IF expo.kind \in {"IntValue", "FloatValue"}
             THEN Return(ScalarMap(format_power(val, expo.value)))
             ELSE IF expo.kind = "Coefficient"
             THEN IF Scalar \in DOMAIN expo.code
                  THEN Return(ScalarMap(format_std_power(val, expo.code[Scalar])))
                  ELSE Raise("KeyError")
             ELSE Raise("power does not support this exponent")

\* expo: [kind, value, code]: the exponent's class, its value() (a literal)
\* and the code map that visiting it gives (a Coefficient).
power(base_code, expo) ==
    IF ~(Scalar \in DOMAIN base_code /\ Cardinality(DOMAIN base_code) = 1)
    THEN Raise("Only support function type base")
    ELSE LET val == base_code[Scalar]
         IN  IF expo.kind = "IntValue"
             THEN Return(ScalarMap(format_power(val, expo.value)))
             ELSE IF expo.kind = "FloatValue"
             THEN Return(ScalarMap(format_std_power(val, format_float(expo.value))))
             ELSE IF expo.kind = "Coefficient"
             THEN IF Scalar \in DOMAIN expo.code
                  THEN Return(ScalarMap(format_std_power(val, expo.code[Scalar])))
                  ELSE Raise("KeyError")
             ELSE Raise("power does not support this exponent")

---------------------------------------------------------------------------
(* abs *)

abs(ops) ==
    IF ~(Len(ops) = 1 /\ Scalar \in DOMAIN ops[1] /\ Cardinality(DOMAIN ops[1]) = 1)
    THEN Raise("Abs expects one operand of function type")
    ELSE Return(ScalarMap(format_abs(ops[1][Scalar])))

---------------------------------------------------------------------------
(* facet_normal *)

\* facet_normal with the normal component not added to trans_set.
facet_normal_Unrecorded(ops, components, r) ==
    IF ops # << >>
    THEN [res |-> Raise("Didn't expect any operands for FacetNormal"), added |-> {}]
    ELSE IF Len(components) # 1
    THEN [res |-> Raise("FacetNormal expects 1 component index"), added |-> {}]
    ELSE LET normal_component == format_normal_component(r, components[1])
         IN  [res |-> Return(ScalarMap(normal_component)), added |-> {}]

\* components is self.component(), the active component indices.
\* Returns the call's result and the tokens it added to trans_set.
facet_normal(ops, components, r) ==
    IF ops # << >>
    THEN [res |-> Raise("Didn't expect any operands for FacetNormal"), added |-> {}]
    ELSE IF Len(components) # 1
    THEN [res |-> Raise("FacetNormal expects 1 component index"), added |-> {}]
    ELSE LET normal_component == format_normal_component(r, components[1])
         IN  [res |-> Return(ScalarMap(normal_component)), added |-> {normal_component}]

---------------------------------------------------------------------------
(* The element lookup (self._create_mapping_basis, _create_function_name). *)

AFFINE == "AFFINE"
COVARIANT_PIOLA == "COVARIANT_PIOLA"
CONTRAVARIANT_PIOLA == "CONTRAVARIANT_PIOLA"

\* multi.count(i)
Count(multi, i) == Cardinality({n \in 1..Len(multi) : multi[n] = i})

\* deriv = [multi.count(i) for i in range(self.geo_dim)], [] if all are 0.
Deriv(multi, gd) ==
    IF \A i \in 0..(gd - 1) : Count(multi, i) = 0 THEN << >>
    ELSE [i \in 1..gd |-> Count(multi, i - 1)]

RECURSIVE DerivName(_)
DerivName(deriv) ==
    IF deriv = << >> THEN "" ELSE ToString(Head(deriv)) \o DerivName(Tail(deriv))

\* The name of the tabulated basis function of a component and derivative,
\* None when the table is identically zero (lk.zero holds the component).
BasisName(lk, component, deriv) ==
    IF component \in lk.zero THEN None
    ELSE <<"FE_C" \o ToString(component) \o "_D" \o DerivName(deriv)>>

\* mapping, basis = self._create_mapping_basis(component, deriv, ...)
create_mapping_basis(lk, component, deriv) ==
    <<IF lk.split THEN <<component>> ELSE <<0>>, BasisName(lk, component, deriv)>>

\* self._create_function_name(component, deriv, ...)
create_function_name(lk, component, deriv) == BasisName(lk, component, deriv)

---------------------------------------------------------------------------
(* __apply_transform *)

\* apply_transform with its transforms not added to trans_set.
apply_transform_Unrecorded(function, derivatives, multi, r) ==
    LET transforms == [i \in 1..Len(derivatives) |->
                          format_transform("JINV", multi[i], derivatives[i], r)]
        prods == IF function # None /\ function # EmptyToken
                 THEN Append(transforms, function) ELSE transforms
    IN  [token |-> format_mult(prods), added |-> {}]

\* apply_transform with the function put before the transforms.
apply_transform_BaseFirst(function, derivatives, multi, r) ==
    LET transforms == [i \in 1..Len(derivatives) |->
                          format_transform("JINV", multi[i], derivatives[i], r)]
        prods == IF function # None /\ function # EmptyToken
                 THEN <<function>> \o transforms ELSE transforms
    IN  [token |-> format_mult(prods), added |-> Range(transforms)]

\* Returns the token and the transforms it added to trans_set.
apply_transform(function, derivatives, multi, r) ==
    LET transforms == [i \in 1..Len(derivatives) |->
                          format_transform("JINV", multi[i], derivatives[i], r)]
        prods == IF function # None /\ function # EmptyToken
                 THEN Append(transforms, function) ELSE transforms
    IN  [token |-> format_mult(prods), added |-> Range(transforms)]

---------------------------------------------------------------------------
(* create_argument and create_function *)

\* MappingFactor with the covariant factor not added to trans_set.
MappingFactor_CovariantUnrecorded(transformation, c, local_comp, basis, r) ==
    IF transformation = COVARIANT_PIOLA
    THEN LET dxdX == format_transform("JINV", c, local_comp, r)
         IN  [basis |-> format_mult(<<dxdX, basis>>), added |-> {}, err |-> ""]
    ELSE IF transformation = CONTRAVARIANT_PIOLA
    THEN LET detJ == format_inv(format_detJ(r))
             dXdx == format_transform("J", c, local_comp, r)
         IN  [basis |-> format_mult(<<detJ, dXdx, basis>>),
              added |-> {format_detJ(r), dXdx}, err |-> ""]
    ELSE [basis |-> basis, added |-> {}, err |-> "Transformation is not supported"]

\* MappingFactor with the determinant not added to trans_set.
MappingFactor_DeterminantUnrecorded(transformation, c, local_comp, basis, r) ==
    IF transformation = COVARIANT_PIOLA
    THEN LET dxdX == format_transform("JINV", c, local_comp, r)
         IN  [basis |-> format_mult(<<dxdX, basis>>), added |-> {dxdX}, err |-> ""]
    ELSE IF transformation = CONTRAVARIANT_PIOLA
    THEN LET detJ == format_inv(format_detJ(r))
             dXdx == format_transform("J", c, local_comp, r)
         IN  [basis |-> format_mult(<<detJ, dXdx, basis>>), added |-> {dXdx}, err |-> ""]
    ELSE [basis |-> basis, added |-> {}, err |-> "Transformation is not supported"]

\* "Multiply basis by appropriate transform": the new basis, the tokens
\* added to trans_set, and the error raised for another mapping kind.
MappingFactor(transformation, c, local_comp, basis, r) ==
    IF transformation = COVARIANT_PIOLA
    THEN LET dxdX == format_transform("JINV", c, local_comp, r)
         IN  [basis |-> format_mult(<<dxdX, basis>>), added |-> {dxdX}, err |-> ""]
    ELSE IF transformation = CONTRAVARIANT_PIOLA
    THEN LET detJ == format_inv(format_detJ(r))
             dXdx == format_transform("J", c, local_comp, r)
         IN  [basis |-> format_mult(<<detJ, dXdx, basis>>),
              added |-> {format_detJ(r), dXdx}, err |-> ""]
    ELSE [basis |-> basis, added |-> {}, err |-> "Transformation is not supported"]

\* code[mapping].append(v), or code[mapping] = [v]
AppendTo(code, mapping, v) ==
    [k \in (DOMAIN code) \cup {mapping} |->
        IF k = mapping
        THEN (IF mapping \in DOMAIN code THEN Append(code[mapping], v) ELSE <<v>>)
        ELSE code[k]]

\* if not mapping in code: code[mapping] = []
Touch(code, mapping) ==
    [k \in (DOMAIN code) \cup {mapping} |->
        IF k \in DOMAIN code THEN code[k] ELSE << >>]

\* The component looked up for direction c (c = -1: the affine branch).
LookupComponent(in, c) == IF c < 0 THEN in.component ELSE c + in.local_offset

\* One pass of the loop body of create_argument, for multi-index multi and,
\* in the non-affine branch, direction c.  st: [code, added, lookups, err].
ArgumentStep(st, in, multi, c, r, gd) ==
    LET deriv == Deriv(multi, gd)
        comp == LookupComponent(in, c)
        mb == create_mapping_basis(in.lookup, comp, deriv)
        mapping == mb[1]
        looked == [st EXCEPT !.lookups = Append(@, <<comp, deriv>>)]
        f == MappingFactor(in.transformation, c, in.local_comp, mb[2], r)
        basis == IF c < 0 THEN mb[2] ELSE f.basis
        grown == IF c < 0 THEN looked ELSE [looked EXCEPT !.added = @ \cup f.added]
        t == apply_transform(basis, in.derivatives, multi, r)
    IN  IF st.err # "" THEN st
        ELSE IF mb[2] = None THEN [looked EXCEPT !.code = Touch(@, mapping)]
        ELSE IF c >= 0 /\ f.err # "" THEN [looked EXCEPT !.err = f.err]
        ELSE [grown EXCEPT !.code = AppendTo(@, mapping, t.token),
                           !.added = @ \cup t.added]

\* FunctionStep with the mapping factors added to trans_set before the
\* function name is tested against None.
FunctionStep_AbsentRecorded(st, in, multi, c, r, gd) ==
    LET deriv == Deriv(multi, gd)
        comp == LookupComponent(in, c)
        name == create_function_name(in.lookup, comp, deriv)
        looked == [st EXCEPT !.lookups = Append(@, <<comp, deriv>>)]
        f == MappingFactor(in.transformation, c, in.local_comp, name, r)
        function_name == IF c < 0 THEN name ELSE f.basis
        grown == IF c < 0 THEN looked ELSE [looked EXCEPT !.added = @ \cup f.added]
        t == apply_transform(function_name, in.derivatives, multi, r)
    IN  IF st.err # "" THEN st
        ELSE IF name = None THEN grown
        ELSE IF c >= 0 /\ f.err # "" THEN [looked EXCEPT !.err = f.err]
        ELSE [grown EXCEPT !.code = Append(@, t.token), !.added = @ \cup t.added]

\* One pass of the loop body of create_function.  st.code is the flat list.
FunctionStep(st, in, multi, c, r, gd) ==
    LET deriv == Deriv(multi, gd)
        comp == LookupComponent(in, c)
        name == create_function_name(in.lookup, comp, deriv)
        looked == [st EXCEPT !.lookups = Append(@, <<comp, deriv>>)]
        f == MappingFactor(in.transformation, c, in.local_comp, name, r)
        function_name == IF c < 0 THEN name ELSE f.basis
        grown == IF c < 0 THEN looked ELSE [looked EXCEPT !.added = @ \cup f.added]
        t == apply_transform(function_name, in.derivatives, multi, r)
    IN  IF st.err # "" THEN st
        ELSE IF name = None THEN looked
        ELSE IF c >= 0 /\ f.err # "" THEN [looked EXCEPT !.err = f.err]
        ELSE [grown EXCEPT !.code = Append(@, t.token), !.added = @ \cup t.added]

\* The passes of the loops, in order: <<multi, c>>, c = -1 in the affine
\* branch and c in range(geo_dim) in the other.
Passes(in, gd) ==
    IF in.transformation = AFFINE
    THEN [n \in 1..Len(in.multiindices) |-> <<in.multiindices[n], -1>>]
    ELSE [n \in 1..(Len(in.multiindices) * gd) |->
            <<in.multiindices[((n - 1) \div gd) + 1], (n - 1) % gd>>]

RECURSIVE ArgumentLoop(_, _, _, _, _, _)
ArgumentLoop(st, in, passes, i, r, gd) ==
    IF i > Len(passes) THEN st
    ELSE ArgumentLoop(ArgumentStep(st, in, passes[i][1], passes[i][2], r, gd),
                      in, passes, i + 1, r, gd)

RECURSIVE FunctionLoop(_, _, _, _, _, _)
FunctionLoop(st, in, passes, i, r, gd) ==
    IF i > Len(passes) THEN st
    ELSE FunctionLoop(FunctionStep(st, in, passes[i][1], passes[i][2], r, gd),
                      in, passes, i + 1, r, gd)

\* Grouped with the sum of several tokens left without its grouping.
Grouped_Ungrouped(val) ==
    IF Len(val) > 1 THEN format_add(val)
    ELSE IF val # << >> THEN val[1]
    ELSE None

\* "Add sums and group if necessary", for one list of tokens.
Grouped(val) ==
    IF Len(val) > 1 THEN format_group(format_add(val))
    ELSE IF val # << >> THEN val[1]
    ELSE None

\* in: [derivatives, component, local_comp, local_offset, transformation,
\* multiindices, lookup].  Returns the result, the tokens added to trans_set
\* and the lookups made.
create_argument(in, r, gd) ==
    LET st == ArgumentLoop([code |-> EmptyMap, added |-> {}, lookups |-> << >>, err |-> ""],
                           in, Passes(in, gd), 1, r, gd)
    IN  [res |-> IF st.err # "" THEN Raise(st.err)
                 ELSE Return([key \in DOMAIN st.code |-> Grouped(st.code[key])]),
         added |-> st.added, lookups |-> st.lookups]

create_function(in, r, gd) ==
    LET st == FunctionLoop([code |-> << >>, added |-> {}, lookups |-> << >>, err |-> ""],
                           in, Passes(in, gd), 1, r, gd)
    IN  [res |-> IF st.err # "" THEN Raise(st.err) ELSE Return(Grouped(st.code)),
         added |-> st.added, lookups |-> st.lookups]

---------------------------------------------------------------------------
(* The inputs the model draws. *)

Tokens == {A, B, One, EmptyToken}
Values == Tokens \cup {None}
TensorKeys == {<<0>>, <<1>>}

CodeMaps ==
    {EmptyMap} \cup {ScalarMap(v) : v \in Values}
        \cup [TensorKeys -> {A, B, None}] \cup {[k \in {<<1>>} |-> A]}

OperandLists == UNION {[1..n -> CodeMaps] : n \in 0..MaxOperands}

\* The operand lists of a node that is itself the child of another node.
ChildOperandLists == UNION {[1..n -> CodeMaps] : n \in 0..MaxChildren}

\* The tokens that can be keys of a duplications dict of sum(ops).
SumTokens(ops) ==
    (UNION {{ops[i][k] : k \in DOMAIN ops[i]} : i \in 1..Len(ops)}) \ {None}

ExpoValues == {2, 3}
Exponents ==
    {[kind |-> k, value |-> v, code |-> EmptyMap] :
        k \in {"IntValue", "FloatValue"}, v \in ExpoValues}
    \cup {[kind |-> "Coefficient", value |-> 0, code |-> m] : m \in CodeMaps}
    \cup {[kind |-> "Other", value |-> 0, code |-> m] : m \in CodeMaps}

Transformations == {AFFINE, COVARIANT_PIOLA, CONTRAVARIANT_PIOLA, "OTHER"}
Directions(gd) == 0..(gd - 1)
\* self._derivatives: no derivative, or one, in the last direction.
DerivativeLists(gd) == {<< >>, <<gd - 1>>}

\* Lists of at most MaxMulti multi-indices, each as long as derivatives.
MultiIndexLists(derivatives, gd) ==
    UNION {[1..n -> [1..Len(derivatives) -> Directions(gd)]] : n \in 0..MaxMulti}

\* The element lookups: the components whose tables are zero, and whether
\* the mapping key differs from component to component.
Lookups == [zero : {{}, {1}, {0, 1, 2}}, split : BOOLEAN]

\* The callers pass local_comp = component - local_offset.
ComponentInputs ==
    {[component |-> 0, local_offset |-> 0], [component |-> 1, local_offset |-> 1]}

BasisInputs(gd) ==
    UNION {{[derivatives |-> d, component |-> ci.component,
             local_comp |-> ci.component - ci.local_offset,
             local_offset |-> ci.local_offset,
             transformation |-> t, multiindices |-> m, lookup |-> lk] :
                ci \in ComponentInputs, t \in Transformations,
                m \in MultiIndexLists(d, gd), lk \in Lookups} :
           d \in DerivativeLists(gd)}

ComponentLists == {<< >>, <<0>>, <<1>>, <<0, 1>>}

\* The arguments of __apply_transform: a function that is None, the empty
\* string or a name, and a multi-index as long as the derivative list.
ApplierInputs(gd) ==
    UNION {[function : {None, EmptyToken, A},
            derivatives : [1..n -> Directions(gd)],
            multi : [1..n -> Directions(gd)]] : n \in 0..MaxDerivatives}

\* The operands of the algebra nodes of an instance whose leaves write
\* trans_set: a token, zero, and a tensor with a zero entry.
NodeMaps ==
    {ScalarMap(A), ScalarMap(None), [k \in TensorKeys |-> IF k = <<0>> THEN None ELSE B]}
NodeOperandLists == UNION {[1..n -> NodeMaps] : n \in 1..MaxChildren}
NodeExponents ==
    {e \in Exponents : e.value \in {0, 2} /\ e.kind # "FloatValue" /\ e.code \in {EmptyMap, ScalarMap(A)}}

---------------------------------------------------------------------------
(* The transformer: one visitor method runs at a time, on the code maps of *)
(* the node's children, and returns before the next one is called.         *)

Init ==
    /\ op = "idle"
    /\ operands = << >>
    /\ extra = << >>
    /\ order = << >>
    /\ result = Return(None)
    /\ trans_set = {}
    /\ lookups = << >>
    /\ calls = 0
    /\ restriction = "+"
    /\ geo_dim = 2

SumOn(lists) ==
    /\ op = "idle"
    /\ \E ops \in lists : \E ord \in DictOrders(SumTokens(ops)) :
        /\ op' = "sum"
        /\ operands' = ops
        /\ extra' = << >>
        /\ order' = ord
        /\ result' = sum(ops, ord)
    /\ UNCHANGED <<trans_set, lookups, calls, restriction, geo_dim>>

Sum == SumOn(OperandLists)

\* ProductOn with trans_set emptied when the product of some key is zero.
ProductOn_ForgetsTransforms(lists) ==
    /\ op = "idle"
    /\ \E ops \in lists :
        LET permutations == create_permutations(Permute(ops))
        IN  /\ Cardinality(DOMAIN permutations) <= MaxPermutations
            /\ \E ord \in DictOrders(DOMAIN permutations) :
                /\ op' = "product"
                /\ operands' = ops
                /\ extra' = << >>
                /\ order' = ord
                /\ result' = product(ops, ord)
                /\ trans_set' =
                    IF /\ product(ops, ord).status = "ok"
                       /\ \E k \in DOMAIN product(ops, ord).ret : product(ops, ord).ret[k] = None
                    THEN {} ELSE trans_set
    /\ UNCHANGED <<lookups, calls, restriction, geo_dim>>

ProductOn(lists) ==
    /\ op = "idle"
    /\ \E ops \in lists :
        LET permutations == create_permutations(Permute(ops))
        IN  /\ Cardinality(DOMAIN permutations) <= MaxPermutations
            /\ \E ord \in DictOrders(DOMAIN permutations) :
                /\ op' = "product"
                /\ operands' = ops
                /\ extra' = << >>
                /\ order' = ord
                /\ result' = product(ops, ord)
    /\ UNCHANGED <<trans_set, lookups, calls, restriction, geo_dim>>

Product == ProductOn(OperandLists)

DivisionOn(lists) ==
    /\ op = "idle"
    /\ \E ops \in lists :
        /\ op' = "division"
        /\ operands' = ops
        /\ extra' = << >>
        /\ order' = << >>
        /\ result' = division(ops)
    /\ UNCHANGED <<trans_set, lookups, calls, restriction, geo_dim>>

Division == DivisionOn(OperandLists)

PowerOn(bases, expos) ==
    /\ op = "idle"
    /\ \E base_code \in bases, expo \in expos :
        /\ op' = "power"
        /\ operands' = <<base_code>>
        /\ extra' = expo
        /\ order' = << >>
        /\ result' = power(base_code, expo)
    /\ UNCHANGED <<trans_set, lookups, calls, restriction, geo_dim>>

Power == PowerOn(CodeMaps, Exponents)

AbsOn(lists) ==
    /\ op = "idle"
    /\ \E ops \in lists :
        /\ op' = "abs"
        /\ operands' = ops
        /\ extra' = << >>
        /\ order' = << >>
        /\ result' = abs(ops)
    /\ UNCHANGED <<trans_set, lookups, calls, restriction, geo_dim>>

Abs == AbsOn(OperandLists)

FacetNormal ==
    /\ op = "idle"
    /\ calls < MaxCalls
    /\ \E ops \in {<< >>, <<ScalarMap(A)>>}, components \in ComponentLists :
        LET r == facet_normal(ops, components, restriction)
        IN  /\ op' = "facet_normal"
            /\ operands' = ops
            /\ extra' = components
            /\ result' = r.res
            /\ trans_set' = trans_set \cup r.added
    /\ order' = << >>
    /\ lookups' = << >>
    /\ calls' = calls + 1
    /\ UNCHANGED <<restriction, geo_dim>>

CreateArgument ==
    /\ op = "idle"
    /\ calls < MaxCalls
    /\ \E in \in BasisInputs(geo_dim) :
        LET r == create_argument(in, restriction, geo_dim)
        IN  /\ op' = "create_argument"
            /\ extra' = in
            /\ result' = r.res
            /\ lookups' = r.lookups
            /\ trans_set' = trans_set \cup r.added
    /\ operands' = << >>
    /\ order' = << >>
    /\ calls' = calls + 1
    /\ UNCHANGED <<restriction, geo_dim>>

CreateFunction ==
    /\ op = "idle"
    /\ calls < MaxCalls
    /\ \E in \in BasisInputs(geo_dim) :
        LET r == create_function(in, restriction, geo_dim)
        IN  /\ op' = "create_function"
            /\ extra' = in
            /\ result' = r.res
            /\ lookups' = r.lookups
            /\ trans_set' = trans_set \cup r.added
    /\ operands' = << >>
    /\ order' = << >>
    /\ calls' = calls + 1
    /\ UNCHANGED <<restriction, geo_dim>>

\* self.__apply_transform(function, derivatives, multi), on its own.
ApplyTransform ==
    /\ op = "idle"
    /\ calls < MaxCalls
    /\ \E in \in ApplierInputs(geo_dim) :
        LET t == apply_transform(in.function, in.derivatives, in.multi, restriction)
        IN  /\ op' = "apply_transform"
            /\ extra' = in
            /\ result' = Return(t.token)
            /\ trans_set' = trans_set \cup t.added
    /\ operands' = << >>
    /\ order' = << >>
    /\ lookups' = << >>
    /\ calls' = calls + 1
    /\ UNCHANGED <<restriction, geo_dim>>

\* The call has returned (or raised): the visitor goes on to the next node.
Finish ==
    /\ op # "idle"
    /\ op' = "idle"
    /\ operands' = << >>
    /\ extra' = << >>
    /\ order' = << >>
    /\ result' = Return(None)
    /\ lookups' = << >>
    /\ UNCHANGED <<trans_set, calls, restriction, geo_dim>>

\* The algebra nodes: none of them reads or writes trans_set.
NextAlgebra == Sum \/ Product \/ Division \/ Power \/ Abs \/ Finish

SpecAlgebra == Init /\ [][NextAlgebra]_vars

\* The leaves that write trans_set.
NextBasis == FacetNormal \/ CreateArgument \/ CreateFunction \/ Finish

SpecBasis == Init /\ [][NextBasis]_vars

\* The transform applier alone.
NextApplier == ApplyTransform \/ Finish

SpecApplier == Init /\ [][NextApplier]_vars

\* One transformer instance: every visitor method, on one trans_set.
NextInstance ==
    \/ SumOn(NodeOperandLists)
    \/ ProductOn(NodeOperandLists)
    \/ DivisionOn(NodeOperandLists)
    \/ PowerOn(NodeMaps, NodeExponents)
    \/ AbsOn(NodeOperandLists)
    \/ FacetNormal
    \/ CreateArgument
    \/ CreateFunction
    \/ Finish

SpecInstance == Init /\ [][NextInstance]_vars

---------------------------------------------------------------------------
(* The visitor works bottom-up: the code map a node's visit returns is an  *)
(* operand of the visit of its parent.  Here the child is a Product, and   *)
(* the parent's other operand is one of the Product's own operands, as in  *)
(* a + a*b and (a*b)/b.  In the parent's state, extra holds the operands   *)
(* of the child.                                                           *)

\* visit of Sum(x, Product(..., x, ...)), the Product just visited.
SumOfChild ==
    /\ op = "product"
    /\ result.status = "ok"
    /\ \E i \in 1..Len(operands) :
        LET ops == <<operands[i], result.ret>>
        IN  \E ord \in DictOrders(SumTokens(ops)) :
                /\ op' = "sum"
                /\ operands' = ops
                /\ extra' = operands
                /\ order' = ord
                /\ result' = sum(ops, ord)
    /\ UNCHANGED <<trans_set, lookups, calls, restriction, geo_dim>>

\* visit of Division(Product(..., x, ...), x), the Product just visited.
DivisionOfChild ==
    /\ op = "product"
    /\ result.status = "ok"
    /\ \E i \in 1..Len(operands) :
        LET ops == <<result.ret, operands[i]>>
        IN  /\ op' = "division"
            /\ operands' = ops
            /\ extra' = operands
            /\ order' = << >>
            /\ result' = division(ops)
    /\ UNCHANGED <<trans_set, lookups, calls, restriction, geo_dim>>

NextTree == ProductOn(ChildOperandLists) \/ SumOfChild \/ DivisionOfChild \/ Finish

SpecTree == Init /\ [][NextTree]_vars

---------------------------------------------------------------------------
(* Properties of product. *)

\* Token t occurs in token r (as a run of consecutive symbols).
Occurs(t, r) == \E i \in 0..Len(r) : i + Len(t) <= Len(r) /\ SubSeq(r, i + 1, i + Len(t)) = t

\* The entries of the Cartesian product of the tensor operands of the call.
Entries == create_permutations(Permute(operands))

\* The fold rule as the specification words it, on a whole token list.
FoldRule(toks) ==
    IF \E i \in 1..Len(toks) : toks[i] = None THEN None
    ELSE LET rest == SelectSeq(toks, LAMBDA v : v # One)
         IN  IF rest = << >> THEN One ELSE format_mult(rest)

\* The multiplicands of the entry with token list val, in the order of the
\* operands of the call (empty operands give none).
OperandOrderTokens(ops, val) ==
    LET idx == SelectSeq([i \in 1..Len(ops) |-> i], LAMBDA i : DOMAIN ops[i] # {})
    IN  [j \in 1..Len(idx) |->
            IF NeedsPermutation(ops[idx[j]])
            THEN val[Cardinality({n \in 1..idx[j] : NeedsPermutation(ops[n])})]
            ELSE ops[idx[j]][Scalar]]

\* The entry sorting to key k that the loop of the call processed last.
LastEntry(k) ==
    LET at == {i \in 1..Len(order) : SortedKey(order[i]) = k}
    IN  order[CHOOSE i \in at : \A j \in at : j <= i]

ProductReturned == op = "product" /\ result.status = "ok"

\* C1: when two or more entries of the Cartesian product sort to the same
\* key, the value returned for that key holds the contribution of every such
\* entry that is not zero: none is overwritten or dropped.
C1_CollidingEntriesMerge ==
    ProductReturned =>
        \A e \in DOMAIN Entries :
            LET k == SortedKey(e)
                t == FoldRule(Entries[e] \o NotPermute(operands))
            IN  (Cardinality({d \in DOMAIN Entries : SortedKey(d) = k}) >= 2 /\ t # None)
                    => (result.ret[k] # None /\ Occurs(t, result.ret[k]))

\* C2 as claimed: every output key's value is the fold of the tokens of that
\* key, taken in operand order; without tensor operands the only key is ().
C2_FoldInOperandOrder ==
    ProductReturned =>
        IF Permute(operands) = << >>
        THEN /\ DOMAIN result.ret = {Scalar}
             /\ result.ret[Scalar] = FoldRule(NotPermute(operands))
        ELSE /\ DOMAIN result.ret = {SortedKey(e) : e \in DOMAIN Entries}
             /\ \A e \in DOMAIN Entries :
                    result.ret[SortedKey(e)] = FoldRule(OperandOrderTokens(operands, Entries[e]))

\* C2 (amended): every output key's value is the fold of the tokens of the
\* entry processed last among those sorting to the key: identity tokens are
\* dropped, any zero token gives zero, otherwise emit_multiply over the other
\* tokens, the tensor operands' in operand order and then the scalar
\* operands' in operand order, or the identity literal when none remain;
\* without tensor operands the only key is ().
C2_FoldTensorsThenScalars ==
    ProductReturned =>
        IF Permute(operands) = << >>
        THEN /\ DOMAIN result.ret = {Scalar}
             /\ result.ret[Scalar] = FoldRule(NotPermute(operands))
        ELSE /\ DOMAIN result.ret = {SortedKey(e) : e \in DOMAIN Entries}
             /\ \A k \in DOMAIN result.ret :
                    result.ret[k] = FoldRule(Entries[LastEntry(k)] \o NotPermute(operands))

\* A product of an identity scalar, a tensor and another scalar that returned
\* zero for one key and a product for another.
C2_Witness ==
    /\ ProductReturned
    /\ Len(operands) = 3
    /\ operands[1] = ScalarMap(One)
    /\ NeedsPermutation(operands[2])
    /\ operands[3] = ScalarMap(B)
    /\ \E k \in DOMAIN result.ret : result.ret[k] = None
    /\ \E k \in DOMAIN result.ret : result.ret[k] = <<"A", "*", "B">>

---------------------------------------------------------------------------
(* Properties of sum. *)

SumReturned == op = "sum" /\ result.status = "ok"

\* The contributions to key that are not zero, in operand order.
NonZero(key) == SelectSeq(Collected(operands, key), LAMBDA v : v # None)

\* The term a token t contributes to the sum of the tokens value.
Term(value, t) ==
    LET n == Cardinality({i \in 1..Len(value) : value[i] = t})
    IN  IF n > 1 THEN format_mult(<<format_float(n), t>>) ELSE t

\* C3: a key with two or more non-zero contributions gets one term per
\* distinct token, emit_multiply([emit_float(n), t]) for a token occurring
\* n > 1 times and the token itself for one occurring once; the terms are
\* added and grouped when there are several, and n copies of a single token
\* give emit_multiply([emit_float(n), t]) with no emit_add.
C3_DuplicatesCollapse ==
    SumReturned =>
        \A key \in DOMAIN result.ret :
            LET value == NonZero(key)
                distinct == Range(value)
            IN  Len(value) >= 2 =>
                    \E p \in DictOrders(distinct) :
                        LET terms == [j \in 1..Len(p) |-> Term(value, p[j])]
                        IN  result.ret[key] =
                                IF Len(terms) > 1 THEN format_group(format_add(terms))
                                ELSE terms[1]

\* Three copies of A for one key, and two of A and one of B for another.
C3_Witness ==
    /\ SumReturned
    /\ Len(operands) = 3
    /\ <<0>> \in DOMAIN result.ret /\ NonZero(<<0>>) = <<A, A, A>>
    /\ <<1>> \in DOMAIN result.ret /\ NonZero(<<1>>) = <<A, A, B>>
    /\ result.ret[<<0>>] = <<"3.0", "*", "A">>
    /\ Len(result.ret[<<1>>]) = 7

\* C4: the keys of the result are the union of the operands' keys; a key
\* with only zero contributions maps to zero; a key with one non-zero
\* contribution maps to that token; zero never enters an emitted token; the
\* sum of a single code map is that map.
C4_SumZeroHandling ==
    SumReturned =>
        /\ DOMAIN result.ret = UNION {DOMAIN operands[i] : i \in 1..Len(operands)}
        /\ \A key \in DOMAIN result.ret :
            /\ NonZero(key) = << >> => result.ret[key] = None
            /\ Len(NonZero(key)) = 1 => result.ret[key] = NonZero(key)[1]
            /\ result.ret[key] # None =>
                    \A i \in 1..Len(result.ret[key]) : result.ret[key][i] # None[1]
        /\ Len(operands) = 1 => result.ret = operands[1]

\* A sum in which one key has only zeros, another a zero and one token.
C4_Witness ==
    /\ SumReturned
    /\ Len(operands) = 2
    /\ DOMAIN result.ret = TensorKeys
    /\ Collected(operands, <<0>>) = <<None, None>>
    /\ Collected(operands, <<1>>) = <<None, B>>
    /\ result.ret[<<0>>] = None
    /\ result.ret[<<1>>] = B

---------------------------------------------------------------------------
(* Properties of division. *)

\* The denominator map of the call is exactly one entry, keyed by ().
RankZeroDenominator == DOMAIN operands[2] = {Scalar}

\* C5: division raises an error, and returns no code map, when it does not
\* get exactly two operands, when the denominator map is not exactly one
\* ()-entry, and when the denominator's ()-entry is zero, whatever the
\* numerator.
C5_DivisionFails ==
    (/\ op = "division"
     /\ \/ Len(operands) # 2
        \/ ~RankZeroDenominator
        \/ operands[2][Scalar] = None)
        => (result.status = "error" /\ result.ret = None)

\* A division of a numerator that is zero everywhere by zero.
C5_Witness ==
    /\ op = "division"
    /\ Len(operands) = 2
    /\ operands[1] = [k \in TensorKeys |-> None]
    /\ operands[2] = ScalarMap(None)
    /\ result = Raise("Division by zero!")

\* C6: a division by a rank-0 denominator d that is not zero returns a map
\* with the numerator's keys: zero where the numerator is zero, the
\* numerator's token where d is "1", and otherwise the token followed by the
\* division operator and group(d).
C6_DivisionResult ==
    (op = "division" /\ Len(operands) = 2 /\ RankZeroDenominator
        /\ operands[2][Scalar] # None) =>
        LET d == operands[2][Scalar]
        IN  /\ result.status = "ok"
            /\ DOMAIN result.ret = DOMAIN operands[1]
            /\ \A k \in DOMAIN operands[1] :
                LET n == operands[1][k]
                IN  result.ret[k] =
                        IF n = None THEN None
                        ELSE IF d = <<"1">> THEN n
                        ELSE n \o <<"/", "(">> \o d \o <<")">>

\* A tensor numerator with a zero entry divided by the token B.
C6_Witness ==
    /\ op = "division"
    /\ Len(operands) = 2
    /\ operands[2] = ScalarMap(B)
    /\ DOMAIN operands[1] = TensorKeys
    /\ result.status = "ok"
    /\ result.ret[<<0>>] = None
    /\ result.ret[<<1>>] = <<"A", "/", "(", "B", ")">>

---------------------------------------------------------------------------
(* Properties of power. *)

\* The base map of the call is exactly one entry, keyed by ().
RankZeroBase == DOMAIN operands[1] = {Scalar}

\* C7: for a rank-0 base token x, an integer literal n gives
\* {(): emit_power(x, n)}, a float literal f gives
\* {(): emit_std_power(x, emit_float(f))}, a coefficient whose visit gives
\* the ()-token e gives {(): emit_std_power(x, e)}, and any other exponent
\* raises the unsupported-exponent error; a base that is not rank-0 fails
\* whatever the exponent.
C7_PowerDispatch ==
    op = "power" =>
        LET x == operands[1][Scalar]
        IN  IF ~RankZeroBase
            THEN result = Raise("Only support function type base")
            ELSE /\ extra.kind = "IntValue" =>
                    result = Return(ScalarMap(<<"pow(">> \o x \o <<",", ToString(extra.value), ")">>))
                 /\ extra.kind = "FloatValue" =>
                    result = Return(ScalarMap(
                        <<"std::pow(">> \o x \o <<",", ToString(extra.value) \o ".0", ")">>))
                 /\ (extra.kind = "Coefficient" /\ Scalar \in DOMAIN extra.code) =>
                    result = Return(ScalarMap(
                        <<"std::pow(">> \o x \o <<",">> \o extra.code[Scalar] \o <<")">>))
                 /\ extra.kind \notin {"IntValue", "FloatValue", "Coefficient"} =>
                    result = Raise("power does not support this exponent")

\* The base token A raised to the float literal 2.0.
C7_Witness ==
    /\ op = "power"
    /\ operands = <<ScalarMap(A)>>
    /\ extra.kind = "FloatValue"
    /\ extra.value = 2
    /\ result = Return(ScalarMap(<<"std::pow(", "A", ",", "2.0", ")">>))

---------------------------------------------------------------------------
(* Properties of create_argument and create_function.  In a state reached  *)
(* by one of them, extra holds the inputs of the call.                     *)

BasisCall == op \in {"create_argument", "create_function"}

\* The passes of the call: <<multi-index, direction>>, the direction -1 for
\* an affine element and every c in 0..geo_dim-1, per multi-index, otherwise.
CallPasses ==
    LET multis == extra.multiindices
    IN  IF extra.transformation = "AFFINE"
        THEN [n \in 1..Len(multis) |-> <<multis[n], -1>>]
        ELSE [n \in 1..(Len(multis) * geo_dim) |->
                <<multis[((n - 1) \div geo_dim) + 1], (n - 1) % geo_dim>>]

\* The component a pass looks up, and what the lookup finds there.
PassComponent(p) ==
    IF extra.transformation = "AFFINE" THEN extra.component ELSE p[2] + extra.local_offset
PassFound(p) == create_mapping_basis(extra.lookup, PassComponent(p), Deriv(p[1], geo_dim))

\* The inverse-Jacobian factors of the derivatives, for multi-index m.
DerivativeFactors(m) ==
    [i \in 1..Len(extra.derivatives) |->
        <<"JINV_" \o ToString(m[i]) \o ToString(extra.derivatives[i]) \o restriction>>]

\* The factors of the mapping kind, in direction c.
JInvFactor(c) == <<"JINV_" \o ToString(c) \o ToString(extra.local_comp) \o restriction>>
JFactor(c) == <<"J_" \o ToString(c) \o ToString(extra.local_comp) \o restriction>>
Determinant == <<"detJ" \o restriction>>

\* The token a pass with a present lookup contributes.
PassTerm(p) ==
    LET found == PassFound(p)[2]
        mapped == IF extra.transformation = "AFFINE" THEN <<found>>
                  ELSE IF extra.transformation = "COVARIANT_PIOLA"
                  THEN <<Join(<<"*">>, <<JInvFactor(p[2]), found>>)>>
                  ELSE <<Join(<<"*">>, <<<<"1.0/">> \o Determinant, JFactor(p[2]), found>>)>>
    IN  Join(<<"*">>, DerivativeFactors(p[1]) \o mapped)

\* The single token of a list of contributions: zero for none, the token for
\* one, the grouped sum of several.
Merged(terms) ==
    IF terms = << >> THEN None
    ELSE IF Len(terms) = 1 THEN terms[1]
    ELSE <<"(">> \o Join(<<"+">>, terms) \o <<")">>

\* The passes whose lookup is present, in order, and their contributions.
PresentPasses == SelectSeq(CallPasses, LAMBDA p : PassFound(p)[2] # None)
Contributions(passes) == [n \in 1..Len(passes) |-> PassTerm(passes[n])]

\* What the call returns when every present pass contributes PassTerm.
ExpectedReturn ==
    IF op = "create_function" THEN Merged(Contributions(PresentPasses))
    ELSE [key \in {PassFound(CallPasses[n])[1] : n \in 1..Len(CallPasses)} |->
            Merged(Contributions(SelectSeq(PresentPasses, LAMBDA p : PassFound(p)[1] = key)))]

\* The lookups the call makes: one per pass, at the pass's component.
ExpectedLookups ==
    [n \in 1..Len(CallPasses) |->
        <<PassComponent(CallPasses[n]), Deriv(CallPasses[n][1], geo_dim)>>]

\* C8: for an AFFINE element each multi-index causes one lookup, at the
\* requested component, and a found token gets the derivative factors only;
\* for a COVARIANT_PIOLA element each direction c whose lookup at component
\* c + local_offset is present contributes the found token premultiplied by
\* the one factor transform(JINV, c, local_comp, restriction), which is in
\* trans_set when the call returns.
C8_AffineAndCovariant ==
    (BasisCall /\ extra.transformation \in {"AFFINE", "COVARIANT_PIOLA"}) =>
        /\ result.status = "ok"
        /\ lookups = ExpectedLookups
        /\ result.ret = ExpectedReturn
        /\ extra.transformation = "COVARIANT_PIOLA" =>
            \A n \in 1..Len(PresentPasses) : JInvFactor(PresentPasses[n][2]) \in trans_set

\* create_argument for a covariant element, derivative taken, where direction
\* 0 is found and direction 1 is absent for each of two multi-indices.
C8_Witness ==
    /\ op = "create_argument"
    /\ extra.transformation = "COVARIANT_PIOLA"
    /\ extra.derivatives = <<1>>
    /\ extra.multiindices = <<<<0>>, <<1>>>>
    /\ extra.local_offset = 0
    /\ extra.lookup = [zero |-> {1}, split |-> FALSE]
    /\ result.status = "ok"
    /\ result.ret[<<0>>] =
        <<"(", "JINV_01+", "*", "JINV_00+", "*", "FE_C0_D10", "+",
          "JINV_11+", "*", "JINV_00+", "*", "FE_C0_D01", ")">>
    /\ <<"JINV_00+">> \in trans_set
    /\ <<"JINV_10+">> \notin trans_set

\* C9: for a CONTRAVARIANT_PIOLA element each direction c whose lookup is
\* present contributes emit_multiply([inverse(determinant(restriction)),
\* transform(J, c, local_comp, restriction), token]) passed through the
\* transform applier, and the J factor, the determinant and the derivative
\* factors of the contribution are in trans_set when the call returns.
C9_Contravariant ==
    (BasisCall /\ extra.transformation = "CONTRAVARIANT_PIOLA") =>
        /\ result.status = "ok"
        /\ lookups = ExpectedLookups
        /\ result.ret = ExpectedReturn
        /\ \A n \in 1..Len(PresentPasses) :
            /\ JFactor(PresentPasses[n][2]) \in trans_set
            /\ Determinant \in trans_set
            /\ Range(DerivativeFactors(PresentPasses[n][1])) \subseteq trans_set

\* create_function for a contravariant element with one multi-index and both
\* directions found.
C9_Witness ==
    /\ op = "create_function"
    /\ extra.transformation = "CONTRAVARIANT_PIOLA"
    /\ extra.derivatives = << >>
    /\ extra.multiindices = <<<< >>>>
    /\ extra.local_offset = 0
    /\ extra.lookup.zero = {}
    /\ result.status = "ok"
    /\ result.ret = <<"(", "1.0/", "detJ+", "*", "J_00+", "*", "FE_C0_D", "+",
                      "1.0/", "detJ+", "*", "J_10+", "*", "FE_C1_D", ")">>
    /\ {<<"detJ+">>, <<"J_00+">>, <<"J_10+">>} \subseteq trans_set

\* C10: create_argument and create_function called with a mapping kind
\* outside {AFFINE, COVARIANT_PIOLA, CONTRAVARIANT_PIOLA} end in the
\* unsupported-transformation error, for every list of multi-indices and
\* every outcome of the lookups.
C10_UnsupportedMappingFails ==
    (BasisCall
        /\ extra.transformation \notin {"AFFINE", "COVARIANT_PIOLA", "CONTRAVARIANT_PIOLA"})
        => result = Raise("Transformation is not supported")

---------------------------------------------------------------------------
(* The merge of create_argument and create_function against sum's.         *)

\* The tokens the call collected for mapping key `key`, in the order of the
\* passes; create_function collects every token in one flat list.
KeyContributions(key) ==
    Contributions(SelectSeq(PresentPasses, LAMBDA p : PassFound(p)[1] = key))
FlatContributions == Contributions(PresentPasses)

\* No token occurs twice in the list.
NoRepeats(l) == \A i, j \in 1..Len(l) : l[i] = l[j] => i = j

\* v is what the second loop of sum gives a key with the contributions l,
\* for some iteration order of its duplications dict.
SumGives(l, v) == \E ord \in DictOrders(Range(l)) : SumKey(l, ord) = v

\* C11 as claimed: for every list of contributions, repeated tokens
\* included, create_argument returns for each key what sum returns for a key
\* with those contributions, and create_function does so for its flat list.
C11_SameMergeAsSum ==
    (BasisCall /\ result.status = "ok") =>
        IF op = "create_function" THEN SumGives(FlatContributions, result.ret)
        ELSE \A key \in DOMAIN result.ret : SumGives(KeyContributions(key), result.ret[key])

\* C11 (amended): for a list of contributions in which no token occurs
\* twice, create_argument returns for the key what sum returns for a key with
\* those contributions (zero for none, the token for one, the grouped sum of
\* several), and create_function does so for its flat list; a list with a
\* repeated token is added and grouped term by term, in the order of
\* contribution, every occurrence a term of its own.
C11_SameMergeWithoutRepeats ==
    (BasisCall /\ result.status = "ok") =>
        LET same(l, v) == IF NoRepeats(l) THEN SumGives(l, v) ELSE v = Merged(l)
        IN  IF op = "create_function" THEN same(FlatContributions, result.ret)
            ELSE \A key \in DOMAIN result.ret : same(KeyContributions(key), result.ret[key])

\* create_argument collected two different tokens for the key (0,).
C11_Witness ==
    /\ op = "create_argument"
    /\ extra.transformation = "AFFINE"
    /\ extra.derivatives = <<1>>
    /\ extra.multiindices = <<<<0>>, <<1>>>>
    /\ result.status = "ok"
    /\ KeyContributions(<<0>>) =
        << <<"JINV_01+", "*", "FE_C0_D10">>, <<"JINV_11+", "*", "FE_C0_D01">> >>
    /\ result.ret[<<0>>] =
        <<"(", "JINV_01+", "*", "FE_C0_D10", "+", "JINV_11+", "*", "FE_C0_D01", ")">>
    /\ SumGives(KeyContributions(<<0>>), result.ret[<<0>>])

---------------------------------------------------------------------------
(* Failures of product. *)

\* The token lists the call folds: one per entry of the Cartesian product,
\* or the scalar operands' tokens alone when no operand is a tensor.
FoldedLists ==
    IF DOMAIN Entries = {} THEN {NotPermute(operands)}
    ELSE {Entries[e] \o NotPermute(operands) : e \in DOMAIN Entries}

\* C12: whenever an empty token that is not zero is among the multiplicands
\* of a fold, product raises the malformed-operand error and returns no code
\* map, wherever the token stands and also when another multiplicand of the
\* same fold is zero.
C12_EmptyTokenRaises ==
    (op = "product" /\ \E l \in FoldedLists : \E i \in 1..Len(l) : l[i] = EmptyToken)
        => result = Raise("should not happen")

---------------------------------------------------------------------------
(* Properties of facet_normal.  In a state reached by it, operands holds   *)
(* the operands and extra the active component indices of the call.        *)

\* The token naming normal component c on the current restriction side.
NormalComponent(c) == <<"n" \o restriction \o ToString(c)>>

\* C13: facet_normal called with no operands and exactly one active
\* component index c returns {(): normal_component(restriction, c)} and that
\* token is in trans_set afterwards; called with an operand, or with no or
\* several active component indices, it fails and leaves trans_set as it was.
C13_FacetNormal ==
    [][op' = "facet_normal" =>
        IF operands' = << >> /\ Len(extra') = 1
        THEN /\ result' = Return(ScalarMap(NormalComponent(extra'[1])))
             /\ NormalComponent(extra'[1]) \in trans_set'
        ELSE /\ result'.status = "error"
             /\ result'.ret = None
             /\ trans_set' = trans_set]_vars

\* facet_normal has returned the normal component 1.
C13_Witness ==
    /\ op = "facet_normal"
    /\ operands = << >>
    /\ extra = <<1>>
    /\ result = Return(ScalarMap(<<"n+1">>))
    /\ <<"n+1">> \in trans_set

---------------------------------------------------------------------------
(* A Product's code map as operand of its parent (a + a*b, (a*b)/b).       *)

\* A well-formed token that is neither zero nor the identity.
Proper(t) == t \notin {None, One, EmptyToken}

\* The parent `node` of a Product of two rank-0 maps has been visited.
OverRankZeroProduct(node) ==
    /\ op = node
    /\ Len(extra) = 2
    /\ DOMAIN extra[1] = {Scalar}
    /\ DOMAIN extra[2] = {Scalar}

\* C14: for a = {(): A} and b = {(): B}, A and B different tokens, neither
\* zero nor the identity, product(a, b) is {(): multiply([A, B])} and
\* sum(a, product(a, b)) is {(): group(add(.))} over the two terms A and
\* multiply([A, B]), each once and neither multiplied by a count.
C14_SumOfProduct ==
    (/\ OverRankZeroProduct("sum")
     /\ operands[1] = extra[1]
     /\ Proper(extra[1][Scalar]) /\ Proper(extra[2][Scalar])
     /\ extra[1][Scalar] # extra[2][Scalar]) =>
        LET a == extra[1][Scalar]
            ab == a \o <<"*">> \o extra[2][Scalar]
        IN  /\ operands[2] = ScalarMap(ab)
            /\ result.status = "ok"
            /\ DOMAIN result.ret = {Scalar}
            /\ result.ret[Scalar] \in {<<"(">> \o a \o <<"+">> \o ab \o <<")">>,
                                       <<"(">> \o ab \o <<"+">> \o a \o <<")">>}

\* The sum of A and A*B.
C14_Witness ==
    /\ op = "sum"
    /\ extra = <<ScalarMap(A), ScalarMap(B)>>
    /\ operands = <<ScalarMap(A), ScalarMap(<<"A", "*", "B">>)>>
    /\ result = Return(ScalarMap(<<"(", "A", "+", "A", "*", "B", ")">>))

\* C16 as claimed: for a = {(): A} and b = {(): B}, B not zero,
\* division(product(a, b), b) equals a.
C16_RoundTrip ==
    (/\ OverRankZeroProduct("division")
     /\ operands[2] = extra[2]
     /\ extra[2][Scalar] # None) => result = Return(extra[1])

\* C16 (amended): for a = {(): A} and b = {(): B}, B not zero,
\* division(product(a, b), b) equals a when A is zero or B is the identity;
\* otherwise it is {(): p / group(B)}, p the token of product(a, b) (B when
\* A is the identity, multiply([A, B]) if not), which is not the map a.
C16_RoundTripUnreduced ==
    (/\ OverRankZeroProduct("division")
     /\ operands[2] = extra[2]
     /\ extra[2][Scalar] # None) =>
        LET a == extra[1][Scalar]
            b == extra[2][Scalar]
            p == IF a = One THEN b ELSE a \o <<"*">> \o b
        IN  IF a = None \/ b = One THEN result = Return(extra[1])
            ELSE /\ operands[1] = ScalarMap(p)
                 /\ result = Return(ScalarMap(p \o <<"/", "(">> \o b \o <<")">>))
                 /\ result # Return(extra[1])

\* (A*B)/B, returned as the token A*B/(B).
C16_Witness ==
    /\ op = "division"
    /\ extra = <<ScalarMap(A), ScalarMap(B)>>
    /\ operands = <<ScalarMap(<<"A", "*", "B">>), ScalarMap(B)>>
    /\ result = Return(ScalarMap(<<"A", "*", "B", "/", "(", "B", ")">>))

---------------------------------------------------------------------------
(* trans_set over the life of an instance. *)

\* C15: trans_set only grows: after each operation of an instance (sum,
\* product, division, power, abs, facet_normal, create_argument,
\* create_function) it is a superset of what it was before; no operation
\* removes an element, a product or division with a zero result included.
C15_TransSetGrows == [][trans_set \subseteq trans_set']_vars

\* A product that is zero for a key has returned, with transforms recorded.
C15_Witness ==
    /\ op = "product"
    /\ result.status = "ok"
    /\ \E k \in DOMAIN result.ret : result.ret[k] = None
    /\ <<"JINV_00+">> \in trans_set
    /\ <<"n+1">> \in trans_set

---------------------------------------------------------------------------
(* Properties of __apply_transform.  In a state reached by it, extra holds *)
(* the arguments of the call and result.ret the token returned.            *)

\* The base token is absent: None, or the empty string, which the test
\* `if function` does not tell from None.
Absent(function) == function \in {None, EmptyToken}

\* transform(JINV, m[i], D[i], restriction) for every position i of D.
AppliedFactors(D, m) ==
    [i \in 1..Len(D) |-> <<"JINV_" \o ToString(m[i]) \o ToString(D[i]) \o restriction>>]

\* C17: for a derivative list D and a multi-index m, __apply_transform adds
\* to trans_set exactly the factors transform(JINV, m[i], D[i], restriction),
\* one per position i of D, and returns emit_multiply over these factors in
\* the order of the positions, followed by the base token; the base token is
\* left out exactly when it is absent; for D empty and the base absent it
\* returns emit_multiply of the empty list.
C17_ApplyTransform ==
    [][op' = "apply_transform" =>
        LET factors == AppliedFactors(extra'.derivatives, extra'.multi)
            base == extra'.function
        IN  /\ trans_set' = trans_set \cup Range(factors)
            /\ result' = Return(Join(<<"*">>, IF Absent(base) THEN factors
                                              ELSE Append(factors, base)))
            /\ (factors = << >> /\ Absent(base)) => result'.ret = << >>]_vars

\* Two derivatives and no base token.
C17_Witness ==
    /\ op = "apply_transform"
    /\ extra = [function |-> None, derivatives |-> <<0, 1>>, multi |-> <<1, 0>>]
    /\ result = Return(<<"JINV_10+", "*", "JINV_01+">>)
    /\ {<<"JINV_10+">>, <<"JINV_01+">>} \subseteq trans_set

---------------------------------------------------------------------------
(* The order of the terms of a sum, and the assertions of sum and product. *)

\* The distinct tokens of value, in the order of their first occurrence.
FirstOccurrences(value) ==
    LET firsts == SelectSeq([i \in 1..Len(value) |-> i],
                            LAMBDA i : \A j \in 1..(i - 1) : value[j] # value[i])
    IN  [n \in 1..Len(firsts) |-> value[firsts[n]]]

\* C18: for a key with two or more non-zero contributions, the terms joined
\* by emit_add are listed in the order in which each distinct token first
\* occurs among the contributions, so that the token returned is a function
\* of the contributions alone.
C18_FirstOccurrenceOrder ==
    SumReturned =>
        \A key \in DOMAIN result.ret :
            LET value == NonZero(key)
                firsts == FirstOccurrences(value)
                terms == [j \in 1..Len(firsts) |-> Term(value, firsts[j])]
            IN  Len(value) >= 2 =>
                    result.ret[key] =
                        IF Len(terms) > 1 THEN <<"(">> \o Join(<<"+">>, terms) \o <<")">>
                        ELSE terms[1]

\* C19: sum never fails its assertion "Where did the expressions go?": for
\* every list of operand maps, a key with two or more non-zero contributions
\* gets a list of expressions that is not empty, and sum returns a code map.
C19_ExpressionsNeverEmpty ==
    op = "sum" =>
        /\ result.status = "ok"
        /\ \A key \in AllKeys(operands) :
                Len(NonZero(key)) >= 2 => Expressions(NonZero(key), order) # << >>

\* A sum with the contributions A, B for one key and A, A for another.
C19_Witness ==
    /\ op = "sum"
    /\ Len(operands) = 2
    /\ NonZero(<<0>>) = <<A, B>>
    /\ NonZero(<<1>>) = <<A, A>>
    /\ Len(Expressions(NonZero(<<0>>), order)) = 2
    /\ Expressions(NonZero(<<1>>), order) = << <<"2.0", "*", "A">> >>
    /\ result.status = "ok"

\* Every value of every operand map is zero or a token that is not empty.
WellFormed(ops) ==
    \A i \in 1..Len(ops) : \A k \in DOMAIN ops[i] : ops[i][k] # EmptyToken

\* C20: on operand maps whose values are each zero or a non-empty token,
\* product returns a code map: its assertion "This key should not be in the
\* code" holds, also when tensor operands share component indices, so that
\* several entries sort to one key, and some entry or scalar is zero.
C20_ProductNeverFails ==
    (op = "product" /\ WellFormed(operands)) => result.status = "ok"

---------------------------------------------------------------------------
(* What the returned code needs declared, against trans_set. *)

\* The tokens of the value the call returned: those of a code map, or the
\* one token create_function returns; zero is no token.
ReturnedTokens ==
    IF op = "idle" \/ result.status # "ok" THEN {}
    ELSE IF op = "create_function" THEN {result.ret} \ {None}
    ELSE {result.ret[k] : k \in DOMAIN result.ret} \ {None}

\* The symbols that name a transform factor or a normal component.
TransformSymbols ==
    {type \o "_" \o ToString(j) \o ToString(k) \o restriction :
        type \in {"JINV", "J"}, j \in 0..(geo_dim - 1), k \in 0..(geo_dim - 1)}
NormalSymbols == {"n" \o restriction \o ToString(c) : c \in 0..(geo_dim - 1)}

\* C21: every inverse-Jacobian or Jacobian transform factor and every normal
\* component that occurs inside a token of a returned code map is in
\* trans_set, and so is the determinant wherever the inverse of the
\* determinant occurs; trans_set never shrinks, so what holds of a code map
\* when it is returned holds of it after every later operation.
C21_ReturnedFactorsDeclared ==
    \A t \in ReturnedTokens : \A i \in 1..Len(t) :
        /\ t[i] \in TransformSymbols \cup NormalSymbols => <<t[i]>> \in trans_set
        /\ (t[i] = "1.0/" /\ i < Len(t) /\ t[i + 1] = "detJ" \o restriction)
                => <<"detJ" \o restriction>> \in trans_set

\* create_function for a contravariant element, a derivative taken: the
\* token returned holds the inverse determinant, J factors and JINV factors.
C21_Witness ==
    /\ op = "create_function"
    /\ extra.transformation = "CONTRAVARIANT_PIOLA"
    /\ extra.derivatives = <<1>>
    /\ extra.multiindices = <<<<0>>>>
    /\ extra.local_offset = 0
    /\ extra.lookup.zero = {1}
    /\ result = Return(<<"JINV_01+", "*", "1.0/", "detJ+", "*", "J_00+", "*", "FE_C0_D10">>)
    /\ {<<"JINV_01+">>, <<"detJ+">>, <<"J_00+">>} \subseteq trans_set

---------------------------------------------------------------------------
(* Lookups that find nothing. *)

\* The factors a pass with a present lookup adds to trans_set.
PassAdded(p) ==
    Range(DerivativeFactors(p[1])) \cup
        (IF extra.transformation = "COVARIANT_PIOLA" THEN {JInvFactor(p[2])}
         ELSE IF extra.transformation = "CONTRAVARIANT_PIOLA"
         THEN {JFactor(p[2]), Determinant}
         ELSE {})

\* What the present passes of the call add, and the mapping keys its
\* lookups return.
PresentAdded == UNION {PassAdded(PresentPasses[n]) : n \in 1..Len(PresentPasses)}
MappingKeys == {PassFound(CallPasses[n])[1] : n \in 1..Len(CallPasses)}

\* The mapping kind of the call is one the code handles.
SupportedKind ==
    extra.transformation \in {"AFFINE", "COVARIANT_PIOLA", "CONTRAVARIANT_PIOLA"}

\* C22: in create_argument and create_function, for a supported mapping
\* kind, a pass whose lookup is absent adds no token to the result and no
\* element to trans_set: the result is made of the present passes'
\* contributions and trans_set grows by their factors only; when every
\* lookup is absent trans_set is unchanged, create_function returns None
\* instead of a token, and create_argument maps each mapping key the lookups
\* returned to zero.
C22_AbsentLookupNoEffect ==
    /\ [](BasisCall /\ SupportedKind =>
            /\ result = Return(ExpectedReturn)
            /\ PresentPasses = << >> =>
                /\ op = "create_function" => result = Return(None)
                /\ op = "create_argument" =>
                        result = Return([key \in MappingKeys |-> None]))
    /\ [][(BasisCall /\ SupportedKind)' =>
            /\ trans_set' = trans_set \cup PresentAdded'
            /\ PresentPasses' = << >> => trans_set' = trans_set]_vars

\* create_argument for a covariant element none of whose tables holds
\* anything: both mapping keys are zero and nothing is recorded.
C22_Witness ==
    /\ op = "create_argument"
    /\ extra.transformation = "COVARIANT_PIOLA"
    /\ extra.derivatives = <<1>>
    /\ extra.multiindices = <<<<0>>, <<1>>>>
    /\ extra.local_offset = 0
    /\ extra.lookup = [zero |-> {0, 1, 2}, split |-> TRUE]
    /\ Len(lookups) = 4
    /\ result = Return([key \in {<<0>>, <<1>>} |-> None])
    /\ trans_set = {}

===========================================================================
